---- MODULE Spec2Model ----
(***************************************************************************)
(* Model of Scine::Readuct::Task (src/src/Readuct/App/Tasks/Task.h): the   *)
(* base class of all ReaDuct tasks, its static cloning helper, its         *)
(* settings resolution and its diagnostic helpers, together with the       *)
(* run() contract that the concrete tasks implement.                       *)
(***************************************************************************)
EXTENDS Integers, Sequences, FiniteSets, TLC

VARIABLES
  taskState,    \* "unconstructed" | "constructed" | "failed" | "crashed"
  _input,       \* Task::_input
  _output,      \* Task::_output
  _logger,      \* Task::_logger: "null" | "default" | "supplied"
  sink,         \* warning-level messages written through _logger, oldest first
  systems,      \* SystemsMap: system name -> calculator handle (heap address)
  heap,         \* calculator objects: handle -> state of the calculator
  taskSettings, \* ValueCollection: key -> value
  op,           \* the last operation that was called
  ret,          \* <<v>> if it returned v, NoRet if it returned nothing
  exc,          \* the message of the exception it threw (NoExc if none)
  pre,          \* the state the last operation was called in
  copies,       \* the clones handed out by copyCalculator
  given,        \* the arguments the task was constructed with
  pc,           \* position of the current run() call
  test,         \* the `test` argument of the current run() call
  stopOnError,  \* the stop-on-error policy resolved by the current run()
  work,         \* observer invocations of the current run()
  outcome       \* how the calculation of the current run() ended

vars == <<taskState, _input, _output, _logger, sink, systems, heap,
          taskSettings, op, ret, exc, pre, copies, given, pc, test, stopOnError,
          work, outcome>>

taskVars == <<taskState, _input, _output, _logger, given>>
runVars == <<pc, test, stopOnError, work, outcome>>

----------------------------------------------------------------------------
(* Bounds of the model *)

MaxLen == 2        \* longest input / output name list
MaxLog == 2        \* most warnings the sink records
MaxCalcState == 1  \* calculator states are 0..MaxCalcState
MaxIter == 2       \* most observer invocations of one run()
MaxHandles == 4    \* most calculator objects alive at a time

Names == {"A", "B"}
TaskNames == {"Single Point Calculation", "Geometry Optimization"}
Keys == {"allow_unconverged", "stop_on_error", "silent_stdout_calculator", "unknown_key"}

NoRet == <<>>
NoExc == <<>>

SeqsUpTo(S, n) == UNION {[1..k -> S] : k \in 0..n}
NameLists == SeqsUpTo(Names, MaxLen)
\* every ValueCollection over Keys
Bags == UNION {[D -> BOOLEAN] : D \in SUBSET Keys}

----------------------------------------------------------------------------
(* Utils::UniversalSettings::ValueCollection, as far as Task.h uses it *)

valueExists(settings, key) == key \in DOMAIN settings

dropValue(settings, key) == [k \in DOMAIN settings \ {key} |-> settings[k]]

\* extract(key, default): the stored value if there is one, which is then
\* removed from the collection; the default otherwise.
extract(settings, key, default) ==
  IF valueExists(settings, key)
    THEN [value |-> settings[key], settings |-> dropValue(settings, key)]
    ELSE [value |-> default, settings |-> settings]

----------------------------------------------------------------------------
(* Core::Log: `_logger->warning << text` *)

DeprecationWarning == "The option 'allow_unconverged' is deprecated."
MultipleInputsWarning == "Warning: More than one input system was specified."
MultipleOutputsWarning == "Warning: More than one output system was specified."

\* The outcomes of streaming `msgs` into logger->warning.  Dereferencing a
\* null logger is undefined behaviour: the process may die or go on with
\* nothing written.
warning(logger, msgs) ==
  IF logger = "null" /\ msgs # <<>>
    THEN {[crash |-> TRUE, emitted |-> <<>>], [crash |-> FALSE, emitted |-> <<>>]}
    ELSE {[crash |-> FALSE, emitted |-> msgs]}

----------------------------------------------------------------------------
(* Task::Task *)

\* as if a missing logger were not replaced
Task_NoDefaultLogger(input, output, logger) ==
  [_input |-> input, _output |-> output, _logger |-> logger,
   exc |-> IF input = <<>> THEN <<"No input systems specified!">> ELSE NoExc]

\* as if the input list were not checked
Task_NoInputCheck(input, output, logger) ==
  [_input |-> input, _output |-> output,
   _logger |-> IF logger = "null" THEN "default" ELSE logger,
   exc |-> NoExc]

\* The members after the constructor has run, and the exception it throws
Task(input, output, logger) ==
  [_input |-> input, _output |-> output,
   _logger |-> IF logger = "null" THEN "default" ELSE logger,
   exc |-> IF input = <<>> THEN <<"No input systems specified!">> ELSE NoExc]

----------------------------------------------------------------------------
(* Task::stopOnErrorExtraction *)

\* as if 'allow_unconverged', when given, decided alone
stopOnErrorExtraction_IgnoresCanonical(settings) ==
  LET deprecated == valueExists(settings, "allow_unconverged")
      e1 == extract(settings, "allow_unconverged", FALSE)
      e2 == extract(e1.settings, "stop_on_error", TRUE)
  IN  [ret |-> IF deprecated THEN ~e1.value ELSE e2.value,
       settings |-> e2.settings,
       msgs |-> IF deprecated THEN <<DeprecationWarning>> ELSE <<>>]

\* as if 'allow_unconverged' were taken over without the negation
stopOnErrorExtraction_NotNegated(settings) ==
  LET deprecated == valueExists(settings, "allow_unconverged")
      e1 == IF deprecated THEN extract(settings, "allow_unconverged", FALSE)
                          ELSE [value |-> FALSE, settings |-> settings]
      default == IF deprecated THEN e1.value ELSE TRUE
      e2 == extract(e1.settings, "stop_on_error", default)
  IN  [ret |-> e2.value,
       settings |-> e2.settings,
       msgs |-> IF deprecated THEN <<DeprecationWarning>> ELSE <<>>]

\* as if 'allow_unconverged' were read with getBool and left in place
stopOnErrorExtraction_KeepsDeprecated(settings) ==
  LET deprecated == valueExists(settings, "allow_unconverged")
      default == IF deprecated THEN ~settings["allow_unconverged"] ELSE TRUE
      e2 == extract(settings, "stop_on_error", default)
  IN  [ret |-> e2.value,
       settings |-> e2.settings,
       msgs |-> IF deprecated THEN <<DeprecationWarning>> ELSE <<>>]

\* as if the warning were given only when 'allow_unconverged' takes effect
stopOnErrorExtraction_WarnsOnlyIfUsed(settings) ==
  LET deprecated == valueExists(settings, "allow_unconverged")
      e1 == IF deprecated THEN extract(settings, "allow_unconverged", FALSE)
                          ELSE [value |-> FALSE, settings |-> settings]
      default == IF deprecated THEN ~e1.value ELSE TRUE
      e2 == extract(e1.settings, "stop_on_error", default)
  IN  [ret |-> e2.value,
       settings |-> e2.settings,
       msgs |-> IF deprecated /\ ~valueExists(settings, "stop_on_error")
                  THEN <<DeprecationWarning>> ELSE <<>>]

\* The value returned, the collection left behind and the text streamed into
\* _logger->warning.
stopOnErrorExtraction(settings) ==
  LET deprecated == valueExists(settings, "allow_unconverged")
      e1 == IF deprecated THEN extract(settings, "allow_unconverged", FALSE)
                          ELSE [value |-> FALSE, settings |-> settings]
      default == IF deprecated THEN ~e1.value ELSE TRUE
      e2 == extract(e1.settings, "stop_on_error", default)
  IN  [ret |-> e2.value,
       settings |-> e2.settings,
       msgs |-> IF deprecated THEN <<DeprecationWarning>> ELSE <<>>]

\* The state an operation is called in, and its arguments
Called(args) == [taskSettings |-> taskSettings, sink |-> sink,
                 systems |-> systems, heap |-> heap, args |-> args]

\* A call of task.stopOnErrorExtraction(taskSettings)
StopOnErrorExtraction ==
  /\ taskState = "constructed"
  /\ Len(sink) < MaxLog
  /\ LET r == stopOnErrorExtraction(taskSettings)
     IN  \E w \in warning(_logger, r.msgs) :
           /\ sink' = sink \o w.emitted
           /\ taskState' = IF w.crash THEN "crashed" ELSE taskState
           /\ taskSettings' = IF w.crash THEN taskSettings ELSE r.settings
           /\ ret' = IF w.crash THEN NoRet ELSE <<r.ret>>
  /\ op' = "stopOnErrorExtraction"
  /\ exc' = NoExc
  /\ pre' = Called(<<>>)
  /\ UNCHANGED <<_input, _output, _logger, given, systems, heap, copies, runVars>>

----------------------------------------------------------------------------
(* Settings resolution: a task and every settings collection it can be     *)
(* handed.                                                                 *)

InitSettings ==
  /\ \E logger \in {"null", "supplied"} :
       LET t == Task(<<"A">>, <<>>, logger)
       IN  /\ taskState = "constructed"
           /\ _input = t._input
           /\ _output = t._output
           /\ _logger = t._logger
           /\ given = [input |-> <<"A">>, output |-> <<>>, logger |-> logger]
  /\ sink = <<>>
  /\ systems = <<>>
  /\ heap = <<>>
  /\ taskSettings \in Bags
  /\ op = "none"
  /\ ret = NoRet
  /\ exc = NoExc
  /\ pre = [taskSettings |-> taskSettings, sink |-> <<>>, systems |-> <<>>,
            heap |-> <<>>, args |-> <<>>]
  /\ copies = {}
  /\ pc = "Created"
  /\ test = FALSE
  /\ stopOnError = TRUE
  /\ work = 0
  /\ outcome = "none"

NextSettings == StopOnErrorExtraction

SpecSettings == InitSettings /\ [][NextSettings]_vars

\* What the documentation of 'stop_on_error' and 'allow_unconverged' promises
Resolved(settings) ==
  IF "stop_on_error" \in DOMAIN settings THEN settings["stop_on_error"]
  ELSE IF "allow_unconverged" \in DOMAIN settings THEN ~settings["allow_unconverged"]
  ELSE TRUE

\* C1: stopOnErrorExtraction returns the value of 'stop_on_error' if present,
\* otherwise the negation of 'allow_unconverged' if present, otherwise true;
\* {allow_unconverged: true} gives false, {allow_unconverged: false} gives
\* true, {allow_unconverged: true, stop_on_error: true} gives true, {} true.
C1_Resolution ==
  op = "stopOnErrorExtraction" =>
    /\ ret = <<Resolved(pre.taskSettings)>>
    /\ LET s == [k \in DOMAIN pre.taskSettings \cap {"allow_unconverged", "stop_on_error"}
                   |-> pre.taskSettings[k]]
       IN  /\ s = [k \in {"allow_unconverged"} |-> TRUE] => ret = <<FALSE>>
           /\ s = [k \in {"allow_unconverged"} |-> FALSE] => ret = <<TRUE>>
           /\ s = [k \in {"allow_unconverged", "stop_on_error"} |-> TRUE] => ret = <<TRUE>>
           /\ s = <<>> => ret = <<TRUE>>

C1_Witness ==
  /\ op = "stopOnErrorExtraction"
  /\ "allow_unconverged" \in DOMAIN pre.taskSettings
  /\ "stop_on_error" \in DOMAIN pre.taskSettings
  /\ pre.taskSettings["allow_unconverged"]
  /\ pre.taskSettings["stop_on_error"]
  /\ ret = <<TRUE>>

\* C2: after a call of stopOnErrorExtraction the settings contain neither
\* 'allow_unconverged' nor 'stop_on_error', and every other key is still
\* present with its value unchanged.
C2_KeysConsumed ==
  op = "stopOnErrorExtraction" =>
    /\ "allow_unconverged" \notin DOMAIN taskSettings
    /\ "stop_on_error" \notin DOMAIN taskSettings
    /\ DOMAIN taskSettings = DOMAIN pre.taskSettings \ {"allow_unconverged", "stop_on_error"}
    /\ \A k \in DOMAIN taskSettings : taskSettings[k] = pre.taskSettings[k]

C2_Witness ==
  /\ op = "stopOnErrorExtraction"
  /\ {"allow_unconverged", "stop_on_error", "unknown_key"} \subseteq DOMAIN pre.taskSettings
  /\ DOMAIN taskSettings = DOMAIN pre.taskSettings \ {"allow_unconverged", "stop_on_error"}

\* C3: a call of stopOnErrorExtraction emits exactly one deprecation warning
\* if 'allow_unconverged' is present (also when 'stop_on_error' overrides
\* it) and no warning if it is absent.
C3_DeprecationWarning ==
  op = "stopOnErrorExtraction" =>
    sink = pre.sink \o (IF "allow_unconverged" \in DOMAIN pre.taskSettings
                          THEN <<DeprecationWarning>> ELSE <<>>)

C3_Witness ==
  /\ op = "stopOnErrorExtraction"
  /\ {"allow_unconverged", "stop_on_error"} \subseteq DOMAIN pre.taskSettings
  /\ sink = <<DeprecationWarning>>

----------------------------------------------------------------------------
(* Core::Calculator and the SystemsMap *)

\* Core::Calculator::clone(): a new calculator object in the state of the
\* one it is called on.
clone(objects, handle) ==
  [handle |-> Len(objects) + 1, heap |-> Append(objects, objects[handle])]

NullHandle == 0

\* the handle the map holds for a name
Stored(sys, name) == IF name \in DOMAIN sys THEN sys[name] ELSE NullHandle

MissingSystem(name, taskName) == <<"System name '", name, "' is missing in ", taskName>>

\* as if written `if (!systems[name]) throw ...`: operator[] inserts the name
copyCalculator_Subscript(sys, objects, name, taskName) ==
  IF name \notin DOMAIN sys
    THEN [exc |-> MissingSystem(name, taskName), handle |-> NullHandle,
          systems |-> [n \in DOMAIN sys \cup {name} |->
                         IF n = name THEN NullHandle ELSE sys[n]],
          heap |-> objects]
    ELSE LET c == clone(objects, sys[name])
         IN  [exc |-> NoExc, handle |-> c.handle, systems |-> sys, heap |-> c.heap]

\* as if the stored shared_ptr itself were returned
copyCalculator_Aliases(sys, objects, name, taskName) ==
  IF name \notin DOMAIN sys
    THEN [exc |-> MissingSystem(name, taskName), handle |-> NullHandle,
          systems |-> sys, heap |-> objects]
    ELSE [exc |-> NoExc, handle |-> sys[name], systems |-> sys, heap |-> objects]

\* as if the clone replaced the entry it was made from
copyCalculator_StoresClone(sys, objects, name, taskName) ==
  IF name \notin DOMAIN sys
    THEN [exc |-> MissingSystem(name, taskName), handle |-> NullHandle,
          systems |-> sys, heap |-> objects]
    ELSE LET c == clone(objects, sys[name])
         IN  [exc |-> NoExc, handle |-> c.handle,
              systems |-> [sys EXCEPT ![name] = c.handle], heap |-> c.heap]

\* as if a missing system gave an empty pointer instead of an exception
copyCalculator_ReturnsNull(sys, objects, name, taskName) ==
  IF name \notin DOMAIN sys
    THEN [exc |-> NoExc, handle |-> NullHandle, systems |-> sys, heap |-> objects]
    ELSE LET c == clone(objects, sys[name])
         IN  [exc |-> NoExc, handle |-> c.handle, systems |-> sys, heap |-> c.heap]

\* Task::copyCalculator: the exception thrown or the handle returned, and the
\* map and the calculator objects afterwards.
copyCalculator(sys, objects, name, taskName) ==
  IF name \notin DOMAIN sys
    THEN [exc |-> MissingSystem(name, taskName), handle |-> NullHandle,
          systems |-> sys, heap |-> objects]
    ELSE LET c == clone(objects, sys[name])
         IN  [exc |-> NoExc, handle |-> c.handle, systems |-> sys, heap |-> c.heap]

\* A call of Task::copyCalculator(systems, name, taskName)
CopyCalculator(name, taskName) ==
  /\ Len(heap) < MaxHandles
  /\ LET r == copyCalculator(systems, heap, name, taskName)
     IN  /\ systems' = r.systems
         /\ heap' = r.heap
         /\ exc' = r.exc
         /\ ret' = IF r.exc = NoExc THEN <<r.handle>> ELSE NoRet
         /\ copies' = IF r.exc = NoExc
                        THEN copies \cup {[clone |-> r.handle, name |-> name,
                                           source |-> Stored(systems, name)]}
                        ELSE copies
  /\ op' = "copyCalculator"
  /\ pre' = Called(<<name, taskName>>)
  /\ UNCHANGED <<taskVars, sink, taskSettings, runVars>>

\* The owner of a handle changes the calculator behind it (a new structure,
\* new settings, a calculation)
MutateCalculator(handle) ==
  /\ handle \in DOMAIN heap
  /\ \E s \in (0..MaxCalcState) \ {heap[handle]} :
       heap' = [heap EXCEPT ![handle] = s]
  /\ op' = "mutate"
  /\ ret' = NoRet
  /\ exc' = NoExc
  /\ pre' = Called(<<handle>>)
  /\ UNCHANGED <<taskVars, sink, systems, taskSettings, copies, runVars>>

\* The maps over the names in D, each name with a calculator of its own
Registries(D) ==
  LET RECURSIVE Number(_, _)
      Number(S, n) == IF S = {} THEN <<>>
                      ELSE LET x == CHOOSE y \in S : TRUE
                           IN  (x :> n) @@ Number(S \ {x}, n + 1)
  IN  Number(D, 1)

InitRegistry ==
  /\ taskState = "unconstructed"
  /\ _input = <<>>
  /\ _output = <<>>
  /\ _logger = "null"
  /\ given = <<>>
  /\ sink = <<>>
  /\ \E D \in SUBSET Names :
       /\ systems = Registries(D)
       /\ heap \in [1..Cardinality(D) -> 0..MaxCalcState]
  /\ taskSettings = <<>>
  /\ op = "none"
  /\ ret = NoRet
  /\ exc = NoExc
  /\ pre = [taskSettings |-> <<>>, sink |-> <<>>, systems |-> systems,
            heap |-> heap, args |-> <<>>]
  /\ copies = {}
  /\ pc = "Created"
  /\ test = FALSE
  /\ stopOnError = TRUE
  /\ work = 0
  /\ outcome = "none"

NextRegistry ==
  \/ \E name \in Names, taskName \in TaskNames : CopyCalculator(name, taskName)
  \/ \E handle \in 1..MaxHandles : MutateCalculator(handle)

SpecRegistry == InitRegistry /\ [][NextRegistry]_vars

Contains(msg, text) == \E i \in DOMAIN msg : msg[i] = text

\* C4: copyCalculator with a name that is not a key of the registry fails
\* with an error whose message contains both taskName and name, returns no
\* handle and leaves the registry unchanged (no entry inserted for name).
C4_MissingSystem ==
  (op = "copyCalculator" /\ pre.args[1] \notin DOMAIN pre.systems) =>
    /\ exc # NoExc
    /\ Contains(exc, pre.args[1])
    /\ Contains(exc, pre.args[2])
    /\ ret = NoRet
    /\ systems = pre.systems
    /\ pre.args[1] \notin DOMAIN systems
    /\ heap = pre.heap

C4_Witness ==
  /\ op = "copyCalculator"
  /\ pre.args[1] = "B"
  /\ DOMAIN pre.systems = {"A"}
  /\ exc = <<"System name '", "B", "' is missing in ", "Geometry Optimization">>

\* C5: with name a key of the registry, copyCalculator returns a new handle
\* distinct from the stored one and leaves the registry's keys and every
\* stored handle unchanged; later mutations of the clone never change the
\* calculator stored under name, and mutations of the stored calculator
\* never change the clone.
C5_CallEffect ==
  (op = "copyCalculator" /\ pre.args[1] \in DOMAIN pre.systems) =>
    /\ exc = NoExc
    /\ ret # NoRet
    /\ ret[1] # pre.systems[pre.args[1]]
    /\ \A n \in DOMAIN pre.systems : ret[1] # pre.systems[n]
    /\ ret[1] \notin DOMAIN pre.heap
    /\ systems = pre.systems
    /\ \A h \in DOMAIN pre.heap : heap[h] = pre.heap[h]
    /\ heap[ret[1]] = pre.heap[pre.systems[pre.args[1]]]

C5_MutationStep ==
  \A c \in copies :
    /\ (op' = "mutate" /\ pre'.args[1] = c.clone) => heap'[c.source] = heap[c.source]
    /\ (op' = "mutate" /\ pre'.args[1] = c.source) => heap'[c.clone] = heap[c.clone]

C5_CloneIndependent == [](C5_CallEffect) /\ [][C5_MutationStep]_vars

\* a clone has been changed and the stored calculator differs from it
C5_Witness ==
  /\ op = "mutate"
  /\ \E c \in copies :
       /\ pre.args[1] = c.clone
       /\ systems[c.name] = c.source
       /\ heap[c.clone] # heap[c.source]
       /\ heap[c.source] = pre.heap[c.source]

----------------------------------------------------------------------------
(* Construction, the getters and the diagnostic helpers *)

\* Task::input() and Task::output()
input(in, out) == in
output(in, out) == out

warningIfMultipleInputsGiven_AtLeastOne(in) ==
  IF Len(in) >= 1 THEN <<MultipleInputsWarning>> ELSE <<>>

\* the text Task::warningIfMultipleInputsGiven streams into _logger->warning
warningIfMultipleInputsGiven(in) ==
  IF Len(in) > 1 THEN <<MultipleInputsWarning>> ELSE <<>>

\* the text Task::warningIfMultipleOutputsGiven streams into _logger->warning
warningIfMultipleOutputsGiven(out) ==
  IF Len(out) > 1 THEN <<MultipleOutputsWarning>> ELSE <<>>

\* new Task(in, out, logger)
Construct(in, out, logger) ==
  /\ taskState = "unconstructed"
  /\ LET t == Task(in, out, logger)
     IN  /\ taskState' = IF t.exc = NoExc THEN "constructed" ELSE "failed"
         /\ _input' = t._input
         /\ _output' = t._output
         /\ _logger' = t._logger
         /\ exc' = t.exc
  /\ given' = [input |-> in, output |-> out, logger |-> logger]
  /\ op' = "Task"
  /\ ret' = NoRet
  /\ pre' = Called(<<in, out, logger>>)
  /\ UNCHANGED <<sink, systems, heap, taskSettings, copies, runVars>>

Input ==
  /\ taskState = "constructed"
  /\ op' = "input"
  /\ ret' = <<input(_input, _output)>>
  /\ exc' = NoExc
  /\ pre' = Called(<<>>)
  /\ UNCHANGED <<taskVars, sink, systems, heap, taskSettings, copies, runVars>>

Output ==
  /\ taskState = "constructed"
  /\ op' = "output"
  /\ ret' = <<output(_input, _output)>>
  /\ exc' = NoExc
  /\ pre' = Called(<<>>)
  /\ UNCHANGED <<taskVars, sink, systems, heap, taskSettings, copies, runVars>>

\* A call of a helper that streams `msgs` into _logger->warning
Warn(which, msgs) ==
  /\ taskState = "constructed"
  /\ Len(sink) < MaxLog
  /\ \E w \in warning(_logger, msgs) :
       /\ sink' = sink \o w.emitted
       /\ taskState' = IF w.crash THEN "crashed" ELSE taskState
  /\ op' = which
  /\ ret' = NoRet
  /\ exc' = NoExc
  /\ pre' = Called(<<>>)
  /\ UNCHANGED <<_input, _output, _logger, given, systems, heap, taskSettings,
                 copies, runVars>>

WarningIfMultipleInputsGiven ==
  Warn("warningIfMultipleInputsGiven", warningIfMultipleInputsGiven(_input))

WarningIfMultipleOutputsGiven ==
  Warn("warningIfMultipleOutputsGiven", warningIfMultipleOutputsGiven(_output))

InitTask ==
  /\ taskState = "unconstructed"
  /\ _input = <<>>
  /\ _output = <<>>
  /\ _logger = "null"
  /\ given = <<>>
  /\ sink = <<>>
  /\ systems = <<>>
  /\ heap = <<>>
  /\ taskSettings \in {b \in Bags : DOMAIN b \subseteq {"allow_unconverged"}}
  /\ op = "none"
  /\ ret = NoRet
  /\ exc = NoExc
  /\ pre = [taskSettings |-> taskSettings, sink |-> <<>>, systems |-> <<>>,
            heap |-> <<>>, args |-> <<>>]
  /\ copies = {}
  /\ pc = "Created"
  /\ test = FALSE
  /\ stopOnError = TRUE
  /\ work = 0
  /\ outcome = "none"

NextTask ==
  \/ \E in \in NameLists, out \in NameLists, logger \in {"null", "supplied"} :
       Construct(in, out, logger)
  \/ Input
  \/ Output
  \/ WarningIfMultipleInputsGiven
  \/ WarningIfMultipleOutputsGiven
  \/ StopOnErrorExtraction

SpecTask == InitTask /\ [][NextTask]_vars

\* C6: constructing a Task with an empty input list always fails with a
\* precondition error, for every output list and with or without a logger;
\* with a non-empty input list it succeeds, and from then on input() and
\* output() return exactly the sequences given at construction, after any
\* sequence of calls on the task.
C6_Construction ==
  /\ op = "Task" =>
       IF pre.args[1] = <<>>
         THEN taskState = "failed" /\ exc = <<"No input systems specified!">>
         ELSE taskState = "constructed" /\ exc = NoExc
  /\ taskState = "constructed" =>
       /\ given.input # <<>>
       /\ input(_input, _output) = given.input
       /\ output(_input, _output) = given.output
  /\ op = "input" => ret = <<given.input>>
  /\ op = "output" => ret = <<given.output>>

\* a construction with no inputs, two outputs and a logger has failed
C6_WitnessRejected ==
  /\ op = "Task"
  /\ pre.args = <<(<<>>), <<"A", "B">>, "supplied">>
  /\ taskState = "failed"

\* output() is called after other calls and returns the list given
C6_Witness ==
  /\ op = "output"
  /\ ret = <<(<<"B", "A">>)>>
  /\ given.input = <<"A", "B">>
  /\ sink # <<>>

\* C7: warningIfMultipleInputsGiven emits exactly one warning when the input
\* list has more than one name and none otherwise, and
\* warningIfMultipleOutputsGiven does the same for the output list; neither
\* call raises, also for a task constructed without a logger, and neither
\* changes the input or output list.
C7_MultiplicityWarnings ==
  /\ op = "warningIfMultipleInputsGiven" =>
       /\ sink = pre.sink \o (IF Len(given.input) > 1
                                THEN <<MultipleInputsWarning>> ELSE <<>>)
       /\ exc = NoExc /\ taskState = "constructed"
       /\ _input = given.input /\ _output = given.output
  /\ op = "warningIfMultipleOutputsGiven" =>
       /\ sink = pre.sink \o (IF Len(given.output) > 1
                                THEN <<MultipleOutputsWarning>> ELSE <<>>)
       /\ exc = NoExc /\ taskState = "constructed"
       /\ _input = given.input /\ _output = given.output

\* a task built without a logger has warned about its inputs and its outputs
C7_Witness ==
  /\ op = "warningIfMultipleOutputsGiven"
  /\ given.logger = "null"
  /\ sink = <<MultipleInputsWarning, MultipleOutputsWarning>>

\* no warning for one input, and none for no output
C7_WitnessSilent ==
  /\ op = "warningIfMultipleOutputsGiven"
  /\ given.output = <<>>
  /\ Len(given.input) = 1
  /\ sink = <<>>

----------------------------------------------------------------------------
(* Task::run, as the concrete tasks implement it:                          *)
(*   Created -> Validating -> Validated (test)                             *)
(*                          | Running -> Succeeded | FailedTolerated       *)
(*                                     | FailedFatal                       *)

\* Task::name() of the task that runs
ThisTaskName == "Single Point Calculation"

\* Task::falseTaskSettingsErrorMessage
falseTaskSettingsErrorMessage(name) ==
  <<"  You gave Task settings for the ", name,
    ", but the only possible setting for this task, are the ",
    "stop_on_error", " option and the ", "silent_stdout_calculator", " option.">>

CalculationFailed == <<"calculation failed">>

\* copyCalculator for each input name in turn, up to the first that throws
RECURSIVE resolveInputs(_, _, _, _)
resolveInputs(sys, objects, names, taskName) ==
  IF names = <<>>
    THEN [exc |-> NoExc, handles |-> <<>>, systems |-> sys, heap |-> objects]
    ELSE LET r == copyCalculator(sys, objects, Head(names), taskName)
         IN  IF r.exc # NoExc
               THEN [exc |-> r.exc, handles |-> <<>>, systems |-> r.systems,
                     heap |-> r.heap]
               ELSE LET rest == resolveInputs(r.systems, r.heap, Tail(names), taskName)
                    IN  [rest EXCEPT !.handles = <<r.handle>> \o @]

\* The precondition checks of run(): the outcome of resolving the inputs and
\* of consuming the recognized settings
validate(sys, objects, names, settings) ==
  LET inputs == resolveInputs(sys, objects, names, ThisTaskName)
      silent == extract(settings, "silent_stdout_calculator", FALSE)
      policy == stopOnErrorExtraction(silent.settings)
  IN  [inputs |-> inputs, policy |-> policy,
       exc |-> IF inputs.exc # NoExc THEN inputs.exc
               ELSE IF policy.settings # <<>>
                      THEN falseTaskSettingsErrorMessage(ThisTaskName)
                      ELSE NoExc]

\* the orchestrator calls task.run(systems, taskSettings, t, observers)
Run(t) ==
  /\ taskState = "constructed"
  /\ pc = "Created"
  /\ pc' = "Validating"
  /\ test' = t
  /\ op' = "run"
  /\ ret' = NoRet
  /\ exc' = NoExc
  /\ pre' = Called(<<t>>)
  /\ UNCHANGED <<taskVars, sink, systems, heap, taskSettings, copies,
                 stopOnError, work, outcome>>

Validate ==
  /\ pc = "Validating"
  /\ LET v == validate(systems, heap, _input, taskSettings)
     IN  /\ systems' = v.inputs.systems
         /\ heap' = v.inputs.heap
         /\ copies' = {[clone |-> v.inputs.handles[i], name |-> _input[i],
                        source |-> Stored(systems, _input[i])] :
                          i \in DOMAIN v.inputs.handles}
         /\ IF v.inputs.exc # NoExc
              THEN /\ pc' = "FailedFatal"
                   /\ exc' = v.exc
                   /\ ret' = NoRet
                   /\ UNCHANGED <<sink, taskSettings, stopOnError, taskState>>
              ELSE \E w \in warning(_logger, v.policy.msgs) :
                     /\ sink' = sink \o w.emitted
                     /\ taskState' = IF w.crash THEN "crashed" ELSE taskState
                     /\ taskSettings' = v.policy.settings
                     /\ stopOnError' = v.policy.ret
                     /\ exc' = v.exc
                     /\ pc' = IF w.crash \/ v.exc # NoExc THEN "FailedFatal"
                              ELSE IF test THEN "Validated" ELSE "Running"
                     /\ ret' = IF ~w.crash /\ v.exc = NoExc /\ test
                                 THEN <<TRUE>> ELSE NoRet
  /\ UNCHANGED <<_input, _output, _logger, given, op, pre, test, work, outcome>>

\* the calculation reports progress to the observers
Observe ==
  /\ pc = "Running"
  /\ work < MaxIter
  /\ work' = work + 1
  /\ UNCHANGED <<taskVars, sink, systems, heap, taskSettings, op, ret, exc, pre,
                 copies, pc, test, stopOnError, outcome>>

\* the working copy of the first input
Working == CHOOSE h \in {c.clone : c \in copies} :
             \A c \in copies : h <= c.clone

\* the task stores its working copy under an output name while it still
\* runs; a failure afterwards does not roll this back
PartialWrite(i) ==
  /\ pc = "Running"
  /\ i \in DOMAIN _output
  /\ Stored(systems, _output[i]) # Working
  /\ systems' = [n \in DOMAIN systems \cup {_output[i]} |->
                   IF n = _output[i] THEN Working ELSE systems[n]]
  /\ UNCHANGED <<taskVars, sink, heap, taskSettings, op, ret, exc, pre, copies,
                 pc, test, stopOnError, work, outcome>>

CalculationSucceeds ==
  /\ pc = "Running"
  /\ outcome' = "succeeded"
  /\ \E s \in 0..MaxCalcState :
       heap' = IF Working \in DOMAIN heap THEN [heap EXCEPT ![Working] = s] ELSE heap
  /\ systems' = [n \in DOMAIN systems \cup {_output[i] : i \in DOMAIN _output} |->
                   IF \E i \in DOMAIN _output : _output[i] = n
                     THEN Working ELSE systems[n]]
  /\ pc' = "Succeeded"
  /\ ret' = <<TRUE>>
  /\ UNCHANGED <<taskVars, sink, taskSettings, op, exc, pre, copies, test,
                 stopOnError, work>>

CalculationFails ==
  /\ pc = "Running"
  /\ outcome' = "failed"
  /\ IF stopOnError
       THEN /\ pc' = "FailedFatal"
            /\ exc' = CalculationFailed
            /\ ret' = NoRet
       ELSE /\ pc' = "FailedTolerated"
            /\ exc' = NoExc
            /\ ret' = <<FALSE>>
  /\ UNCHANGED <<taskVars, sink, systems, heap, taskSettings, op, pre, copies,
                 test, stopOnError, work>>

InitRun ==
  /\ \E in \in NameLists \ {<<>>}, out \in NameLists :
       LET t == Task(in, out, "null")
       IN  /\ taskState = "constructed"
           /\ _input = t._input
           /\ _output = t._output
           /\ _logger = t._logger
           /\ given = [input |-> in, output |-> out, logger |-> "null"]
  /\ sink = <<>>
  /\ \E D \in SUBSET Names :
       /\ systems = Registries(D)
       /\ heap = [h \in 1..Cardinality(D) |-> 0]
  /\ taskSettings \in Bags
  /\ op = "none"
  /\ ret = NoRet
  /\ exc = NoExc
  /\ pre = [taskSettings |-> taskSettings, sink |-> <<>>, systems |-> systems,
            heap |-> heap, args |-> <<>>]
  /\ copies = {}
  /\ pc = "Created"
  /\ test = FALSE
  /\ stopOnError = TRUE
  /\ work = 0
  /\ outcome = "none"

NextRun ==
  \/ \E t \in BOOLEAN : Run(t)
  \/ Validate
  \/ Observe
  \/ \E i \in 1..MaxLen : PartialWrite(i)
  \/ CalculationSucceeds
  \/ CalculationFails

SpecRun == InitRun /\ [][NextRun]_vars

Terminal == {"Validated", "Succeeded", "FailedTolerated", "FailedFatal"}
MissingInputs == {i \in DOMAIN _input : _input[i] \notin DOMAIN pre.systems}

\* C8: run() on a task with an input name that is absent from the registry
\* ends in a fatal failure (never a true or false return) naming the task
\* and the missing system, for both values of the resolved stop_on_error,
\* before any calculation work and before any write to the registry.
C8_MissingInputFatal ==
  (op = "run" /\ MissingInputs # {}) =>
    /\ pc \in {"Validating", "FailedFatal"}
    /\ ret = NoRet
    /\ work = 0
    /\ outcome = "none"
    /\ systems = pre.systems
    /\ pc = "FailedFatal" =>
         /\ Contains(exc, ThisTaskName)
         /\ \E i \in MissingInputs : Contains(exc, _input[i])

C8_Witness ==
  /\ op = "run"
  /\ pc = "FailedFatal"
  /\ ~test
  /\ _input = <<"A", "B">>
  /\ DOMAIN pre.systems = {"A"}
  /\ ~Resolved(pre.taskSettings)
  /\ exc = <<"System name '", "B", "' is missing in ", ThisTaskName>>

C8_WitnessStopOnError ==
  /\ op = "run"
  /\ pc = "FailedFatal"
  /\ MissingInputs # {}
  /\ Resolved(pre.taskSettings)

\* C9: run() with testMode = true performs validation only: it never reaches
\* the Running state, invokes no progress observer and leaves the registry
\* unchanged; with all input names present and only recognized settings it
\* returns true.
C9_TestModeValidatesOnly ==
  (op = "run" /\ test) =>
    /\ pc \in {"Validating", "Validated", "FailedFatal"}
    /\ work = 0
    /\ outcome = "none"
    /\ systems = pre.systems
    /\ (/\ pc \in Terminal
        /\ MissingInputs = {}
        /\ DOMAIN pre.taskSettings \subseteq
             {"allow_unconverged", "stop_on_error", "silent_stdout_calculator"})
       => (pc = "Validated" /\ ret = <<TRUE>> /\ exc = NoExc)

C9_Witness ==
  /\ op = "run"
  /\ test
  /\ pc = "Validated"
  /\ ret = <<TRUE>>
  /\ _input = <<"A">>
  /\ _output = <<"B">>
  /\ DOMAIN systems = {"A"}

\* how a failed calculation ends, and what the return values of run() mean
C10_FailureAndReturn ==
  /\ outcome = "failed" =>
       IF Resolved(pre.taskSettings)
         THEN pc = "FailedFatal" /\ ret = NoRet /\ exc = CalculationFailed
         ELSE pc = "FailedTolerated" /\ ret = <<FALSE>>
  /\ ret = <<FALSE>> => (outcome = "failed" /\ ~Resolved(pre.taskSettings))
  /\ ret = <<TRUE>> => (outcome = "succeeded" /\ pc = "Succeeded")

\* every entry that is not under a declared output name is as it was
C10_OnlyOutputsWritten ==
  /\ DOMAIN pre.systems \subseteq DOMAIN systems
  /\ \A n \in DOMAIN systems :
       (\A i \in DOMAIN _output : _output[i] # n) =>
         (n \in DOMAIN pre.systems /\ systems[n] = pre.systems[n])

C10_WitnessFatal ==
  /\ op = "run"
  /\ ~test
  /\ pc = "FailedFatal"
  /\ outcome = "failed"
  /\ pre.taskSettings = <<>>

C10_WitnessSucceeded ==
  /\ op = "run"
  /\ pc = "Succeeded"
  /\ _output = <<"B">>
  /\ DOMAIN pre.systems = {"A"}
  /\ DOMAIN systems = {"A", "B"}
  /\ systems["A"] = pre.systems["A"]

====
